---- MODULE Spec2Model ----
(***************************************************************************)
(* The bidirectional PDF package builder of practiceintelligence.          *)
(*                                                                         *)
(* Three entry points build a linked weekly package:                       *)
(*   "package": replit_integration.create_bidirectional_weekly_package     *)
(*   "linked" : simple_pymypdf_export.create_bidirectional_linked_pdf      *)
(*   "simple" : simple_fix.create_simple_pdf                               *)
(* Init picks the entry point and its inputs; the actions follow the code  *)
(* of the entry point statement by statement (pc is the position in it).   *)
(*                                                                         *)
(* Lengths are kept in units of 1/Scale point so that the fractions of the *)
(* page size used by replit_integration (0.08, 0.12, 0.25, ...) and the    *)
(* division by 7 are exact integers.  Dates are day numbers, day 0 being   *)
(* Monday 2025-07-14; a time of day is a minute in 0..1439.                *)
(***************************************************************************)
EXTENDS Integers, Sequences, FiniteSets, TLC

VARIABLES
    prog,             \* the entry point that runs
    pc,               \* its position
    weekly_pdf_path,  \* package: the weekly input file
    daily_pdf_paths,  \* package: the list of daily input files
    events_data,      \* export: the raw event list
    week_start_str,   \* export: weekStart as given
    week_end_str,     \* export: weekEnd as given
    week_start,       \* export: parsed weekStart (or None)
    week_end,         \* export: parsed weekEnd (or None)
    week_events,      \* export: the filtered events
    parsing_errors,   \* export: filter_events_safe's error count
    doc,              \* the fitz document under construction: a sequence of pages
    i,                \* loop index of the running loop
    saved_pdf,        \* the PDF at the destination path (NoFile if none)
    saved_txt,        \* whether a text fallback file was written
    result,           \* the entry point's return value ("pending" while running)
    runs,             \* two concurrent exports: the locals of each run
    disk,             \* two concurrent exports: the files of the working directory
    appointment,      \* layout: the event whose position and size are computed
    layout            \* layout: what each layout function returned for it

vars == <<prog, pc, weekly_pdf_path, daily_pdf_paths, events_data, week_start_str,
          week_end_str, week_start, week_end, week_events, parsing_errors, doc, i,
          saved_pdf, saved_txt, result, runs, disk, appointment, layout>>

---------------------------------------------------------------------------
(* Bounds of the model *)

\* an input PDF holds 1..MaxFilePages pages
MaxFilePages == 2
\* the daily path list has 7-MaxPathSlack .. 7+MaxPathSlack entries
MaxPathSlack == 1
\* the raw event list has at most MaxEvents entries
MaxEvents == 2
\* the events of a week fed to the three export scripts number 0..MaxWeekEvents
MaxWeekEvents == 2

---------------------------------------------------------------------------
(* Program constants *)

NumDays == 7
\* common denominator of the page-size fractions and of the division by 7
Scale == NumDays * 100
MinutesPerDay == 24 * 60

days == <<"Monday", "Tuesday", "Wednesday", "Thursday", "Friday", "Saturday", "Sunday">>

\* Python's None
None == [none |-> TRUE]

\* what the destination path holds
NoFile == [state |-> "absent"]
PartialFile == [state |-> "partial"]
PdfOf(d) == [state |-> "complete", pages |-> d]

\* return values: a bool, a filename, None, or an exception leaving the function
Pending == [kind |-> "pending"]
RetBool(b) == [kind |-> "bool", value |-> b]
RetFile(ext, day) == [kind |-> "file", ext |-> ext, day |-> day]
RetNone == [kind |-> "none"]
Raised == [kind |-> "raised"]

Min(a, b) == IF a <= b THEN a ELSE b

Rect(x0, y0, x1, y1) == <<x0, y0, x1, y1>>

\* the dict handed to page.insert_link: kind LINK_GOTO, "to" Point(0, 0)
Link(from, page) == [kind |-> "LINK_GOTO", from |-> from, page |-> page]

\* a page of a document; origin.file is -1 for a page made by doc.new_page,
\* 0 for a page of the weekly input file, k for a page of daily_pdf_paths[k]
Page(file, idx, w, h) ==
    [origin |-> [file |-> file, idx |-> idx], width |-> w, height |-> h,
     day_name |-> "", date |-> 0, count |-> 0, drawn |-> <<>>, links |-> <<>>]

---------------------------------------------------------------------------
(* replit_integration.py: input files *)

\* an input path: missing; present but not a PDF fitz can open; or a PDF of
\* npages pages.  A PDF file holds at least one page (fitz refuses to save a
\* document with zero pages)
MissingFile == [exists |-> FALSE, readable |-> FALSE, npages |-> 0]
CorruptFile == [exists |-> TRUE, readable |-> FALSE, npages |-> 0]
PdfFile(n) == [exists |-> TRUE, readable |-> TRUE, npages |-> n]
FileKinds == {MissingFile, CorruptFile} \cup {PdfFile(n) : n \in 1..MaxFilePages}

\* the weekly export is landscape letter, the daily exports portrait letter
LandscapeW == 792
LandscapeH == 612

\* doc.insert_pdf(src): appends every page of src, in order
RECURSIVE FilePages(_, _, _, _, _)
FilePages(file, n, k, w, h) ==
    IF k >= n THEN <<>>
    ELSE <<Page(file, k, w, h)>> \o FilePages(file, n, k + 1, w, h)

insert_pdf(d, file, f, w, h) == d \o FilePages(file, f.npages, 0, w, h)

\* doc[n] exists (otherwise doc[n] raises IndexError)
HasPage(d, n) == n >= 0 /\ n < Len(d)

\* page.insert_link on page number pno of d (0-based)
insert_link(d, pno, lnk) ==
    [d EXCEPT ![pno + 1].links = Append(@, lnk)]

RECURSIVE insert_links(_, _, _)
insert_links(d, pno, lnks) ==
    IF lnks = <<>> THEN d
    ELSE insert_links(insert_link(d, pno, Head(lnks)), pno, Tail(lnks))

---------------------------------------------------------------------------
(* replit_integration.py: _add_hyperlinks_to_package *)

\* day header clickable area of day i on the weekly page
PkgHeaderRect(width, height, k) ==
    LET time_column_width == 56 * width          \* width * 0.08
        day_column_width  == 92 * width          \* (width - time_column_width) / 7
        header_height     == 84 * height         \* height * 0.12
        x1 == time_column_width + (k * day_column_width)
    IN  Rect(x1, 0, x1 + day_column_width, header_height)

\* the links of the first loop, in insertion order
RECURSIVE PkgWeeklyLinks(_, _, _)
PkgWeeklyLinks(width, height, k) ==
    IF k >= NumDays THEN <<>>
    ELSE <<Link(PkgHeaderRect(width, height, k), k + 1)>>
             \o PkgWeeklyLinks(width, height, k + 1)

PkgTopWeeklyRect == Rect(15 * Scale, 15 * Scale, 150 * Scale, 60 * Scale)
PkgBottomWeeklyRect(width, height) ==
    Rect(280 * width, (height - 60) * Scale, 420 * width, (height - 15) * Scale)
PkgDateTitleRect(width) == Rect(175 * width, 15 * Scale, 525 * width, 60 * Scale)
PkgPrevDayRect(height) ==
    Rect(15 * Scale, (height - 60) * Scale, 100 * Scale, (height - 15) * Scale)
PkgNextDayRect(width, height) ==
    Rect((width - 100) * Scale, (height - 60) * Scale,
         (width - 15) * Scale, (height - 15) * Scale)

\* mutant: the previous-day guard off by one (i > 1)
PkgDailyLinks_PrevGuard(width, height, k) ==
    <<Link(PkgTopWeeklyRect, 0),
      Link(PkgBottomWeeklyRect(width, height), 0),
      Link(PkgDateTitleRect(width), 0)>>
    \o (IF k > 1 THEN <<Link(PkgPrevDayRect(height), k)>> ELSE <<>>)
    \o (IF k < 6 THEN <<Link(PkgNextDayRect(width, height), k + 2)>> ELSE <<>>)

\* the links one iteration of the second loop puts on the page of day k
PkgDailyLinks(width, height, k) ==
    <<Link(PkgTopWeeklyRect, 0),
      Link(PkgBottomWeeklyRect(width, height), 0),
      Link(PkgDateTitleRect(width), 0)>>
    \o (IF k > 0 THEN <<Link(PkgPrevDayRect(height), k)>> ELSE <<>>)
    \o (IF k < 6 THEN <<Link(PkgNextDayRect(width, height), k + 2)>> ELSE <<>>)

\* every link of lnks names a page d holds
TargetsExist(d, lnks) == \A n \in 1..Len(lnks) : HasPage(d, lnks[n].page)
---------------------------------------------------------------------------
(* Timestamps.  A timestamp string is kept by its shape:                    *)
(*   "date"  YYYY-MM-DD                 "naive" YYYY-MM-DDTHH:MM:SS         *)
(*   "z"     YYYY-MM-DDTHH:MM:SSZ       "bad"   not-a-date                  *)
(*   "empty" the empty string (also the default of event.get)               *)

Stamp(form, day, minute) == [form |-> form, day |-> day, minute |-> minute]
EmptyStr == Stamp("empty", 0, 0)
BadStr == Stamp("bad", 0, 0)

\* a datetime object: tzinfo is UTC when aware, None otherwise
DateTime(aware, day, minute) == [aware |-> aware, day |-> day, minute |-> minute]

\* datetime.fromisoformat(s.replace('Z', '+00:00')); None stands for ValueError
fromisoformat(s) ==
    CASE s.form = "date"  -> DateTime(FALSE, s.day, 0)
      [] s.form = "naive" -> DateTime(FALSE, s.day, s.minute)
      [] s.form = "z"     -> DateTime(TRUE, s.day, s.minute)
      [] OTHER            -> None

\* simple_fix.safe_parse_datetime: the second attempt re-parses
\* date_str.split('.')[0] + 'Z', the third uses strptime '%Y-%m-%d %H:%M:%S'
safe_parse_datetime(s) ==
    IF s.form = "empty" THEN None
    ELSE IF fromisoformat(s) # None THEN fromisoformat(s)
    ELSE \* no shape above has a '.', and none parses with a second 'Z' added
         \* or matches the space format
         None

\* a <= b on datetimes raises TypeError when exactly one of them is aware
Comparable(a, b) == a.aware = b.aware
Instant(a) == a.day * MinutesPerDay + a.minute
\* mutant: a strict comparison
LessEq_Strict(a, b) == Instant(a) < Instant(b)
LessEq(a, b) == Instant(a) <= Instant(b)

\* dt.date() == other.date()
SameDate(a, b) == a.day = b.day

\* mutant: the day offset counts from 1
PlusDays_FromOne(a, k) == [a EXCEPT !.day = @ + k + 1]

\* dt + timedelta(days=k)
PlusDays(a, k) == [a EXCEPT !.day = @ + k]

\* an event record; only startTime and endTime are read or compared here
Event(st, en) == [startTime |-> st, endTime |-> en]

---------------------------------------------------------------------------
(* simple_pymypdf_export.py: filter_events_for_week *)

\* whether the loop body appends the event (an exception means "continue")
LinkedKeeps(event, ws, we) ==
    LET event_start == event.startTime
        event_date == fromisoformat(event_start)
    IN  /\ event_start.form # "empty"
        /\ event_date # None
        /\ Comparable(ws, event_date)
        /\ LessEq(ws, event_date)
        /\ Comparable(event_date, we)
        /\ LessEq(event_date, we)

\* filter_events_for_week with "week_events.insert(0, event)" for append
RECURSIVE filter_events_for_week_Prepend(_, _, _)
filter_events_for_week_Prepend(evs, ws, we) ==
    IF evs = <<>> THEN <<>>
    ELSE filter_events_for_week_Prepend(Tail(evs), ws, we)
           \o (IF LinkedKeeps(Head(evs), ws, we) THEN <<Head(evs)>> ELSE <<>>)

RECURSIVE filter_events_for_week(_, _, _)
filter_events_for_week(evs, ws, we) ==
    IF evs = <<>> THEN <<>>
    ELSE (IF LinkedKeeps(Head(evs), ws, we) THEN <<Head(evs)>> ELSE <<>>)
           \o filter_events_for_week(Tail(evs), ws, we)

---------------------------------------------------------------------------
(* simple_fix.py: filter_events_safe *)

\* event_date after "if event_date.tzinfo is None: replace(tzinfo=week_start.tzinfo)"
SafeEventDate(event, ws) ==
    LET event_date == safe_parse_datetime(event.startTime)
    IN  IF event_date.aware THEN event_date
        ELSE [event_date EXCEPT !.aware = ws.aware]

\* the outcome of one loop iteration: "skip" (continue), "keep" (append),
\* "drop" (parsed, out of range) or "error" (parsing_errors += 1)
SafeOutcome(event, ws, we) ==
    IF event.startTime.form = "empty" THEN "skip"
    ELSE IF safe_parse_datetime(event.startTime) = None THEN "error"
    ELSE LET event_date == SafeEventDate(event, ws)
         IN  IF ~Comparable(ws, event_date) THEN "error"
             ELSE IF ~LessEq(ws, event_date) THEN "drop"
             ELSE IF ~Comparable(event_date, we) THEN "error"
             ELSE IF LessEq(event_date, we) THEN "keep" ELSE "drop"

RECURSIVE SafeLoop(_, _, _)
SafeLoop(evs, ws, we) ==
    IF evs = <<>> THEN [week_events |-> <<>>, parsing_errors |-> 0]
    ELSE LET o == SafeOutcome(Head(evs), ws, we)
             r == SafeLoop(Tail(evs), ws, we)
         IN  [week_events |-> (IF o = "keep" THEN <<Head(evs)>> ELSE <<>>)
                                 \o r.week_events,
              parsing_errors |-> r.parsing_errors + (IF o = "error" THEN 1 ELSE 0)]

filter_events_safe(evs, ws_str, we_str) ==
    LET ws == safe_parse_datetime(ws_str)
        we == safe_parse_datetime(we_str)
    IN  IF ws = None \/ we = None
        THEN [week_events |-> <<>>, parsing_errors |-> 0]
        ELSE SafeLoop(evs, ws, we)
---------------------------------------------------------------------------
(* Page rendering of the two export scripts *)

\* a rectangle given in points
RectPt(x0, y0, x1, y1) == Rect(x0 * Scale, y0 * Scale, x1 * Scale, y1 * Scale)

\* something drawn on a page: a "header" or "button" region, an "event" block
\* or a text "line"; col is the day index, row the grid row / slot / line index
Drawn(what, event, col, row, rect) ==
    [what |-> what, event |-> event, col |-> col, row |-> row, rect |-> rect]

\* day_events[:10]
FirstTen(s) == SubSeq(s, 1, Min(Len(s), 10))

\* simple_pymypdf_export.is_event_on_date (events that reach it parse)
is_event_on_date(event, target_date) ==
    /\ event.startTime.form # "empty"
    /\ fromisoformat(event.startTime) # None
    /\ SameDate(fromisoformat(event.startTime), target_date)

\* simple_pymypdf_export.is_event_at_time
is_event_at_time(event, hour, minute) ==
    /\ event.startTime.form # "empty"
    /\ fromisoformat(event.startTime) # None
    /\ fromisoformat(event.startTime).minute \div 60 = hour
    /\ fromisoformat(event.startTime).minute % 60 = minute

LinkedDayEvents(events, date) ==
    SelectSeq(events, LAMBDA e : is_event_on_date(e, date))

\* create_weekly_overview_page: grid geometry
grid_start_x == 50
grid_start_y == 120
column_width == 100
header_height == 30
row_height == 25

LinkedHeaderRect(k) ==
    LET x == grid_start_x + (k * column_width)
    IN  RectPt(x, grid_start_y, x + column_width, grid_start_y + header_height)

\* the event rows of one day column (up to 10 events per day)
LinkedColumnRows(events, ws, k) ==
    LET day_events == FirstTen(LinkedDayEvents(events, PlusDays(ws, k)))
        x == grid_start_x + (k * column_width)
    IN  [j \in 1..Len(day_events) |->
            LET y == grid_start_y + header_height + ((j - 1) * row_height)
            IN  Drawn("event", day_events[j], k, j - 1,
                      RectPt(x, y, x + column_width, y + row_height))]

RECURSIVE LinkedWeeklyDrawn(_, _, _)
LinkedWeeklyDrawn(events, ws, k) ==
    IF k >= NumDays THEN <<>>
    ELSE <<Drawn("header", None, k, 0, LinkedHeaderRect(k))>>
           \o LinkedColumnRows(events, ws, k)
           \o LinkedWeeklyDrawn(events, ws, k + 1)

\* the weekly page after doc.new_page(width=792, height=612) and
\* create_weekly_overview_page
create_weekly_overview_page(events, ws) ==
    [Page(-1, 0, LandscapeW, LandscapeH) EXCEPT
        !.day_name = "WEEKLY PLANNER",
        !.date = ws.day,
        !.count = Len(events),
        !.drawn = LinkedWeeklyDrawn(events, ws, 0)]

\* create_daily_page: navigation buttons and time slots
nav_y == 100
time_start_y == 140
slot_height == 26
FirstHour == 6
LastHour == 23

LinkedWeeklyButtonRect == RectPt(50, nav_y, 150, nav_y + 25)
\* mutant: the previous-day button is drawn 20 points wider than its link
LinkedPrevButtonRect_Wide == RectPt(200, nav_y, 300, nav_y + 25)
LinkedPrevButtonRect == RectPt(200, nav_y, 280, nav_y + 25)
LinkedNextButtonRect == RectPt(320, nav_y, 400, nav_y + 25)

LinkedButtons(day_index) ==
    <<Drawn("button", None, day_index, 0, LinkedWeeklyButtonRect)>>
    \o (IF day_index > 0
        THEN <<Drawn("button", None, day_index, 1, LinkedPrevButtonRect)>> ELSE <<>>)
    \o (IF day_index < 6
        THEN <<Drawn("button", None, day_index, 2, LinkedNextButtonRect)>> ELSE <<>>)

\* the event blocks of one time slot
LinkedSlotBlocks(day_events, day_index, slot_index) ==
    LET hour == FirstHour + (slot_index \div 2)
        minute == 30 * (slot_index % 2)
        y == time_start_y + (slot_index * slot_height)
        slot_events == SelectSeq(day_events, LAMBDA e : is_event_at_time(e, hour, minute))
    IN  [j \in 1..Len(slot_events) |->
            Drawn("event", slot_events[j], day_index, slot_index,
                  RectPt(100, y + 2, 545, y + slot_height - 2))]

\* for hour in range(6, 24): for minute in [0, 30]
RECURSIVE LinkedSlots(_, _, _)
LinkedSlots(day_events, day_index, slot_index) ==
    IF slot_index >= 2 * (LastHour + 1 - FirstHour) THEN <<>>
    ELSE LinkedSlotBlocks(day_events, day_index, slot_index)
           \o LinkedSlots(day_events, day_index, slot_index + 1)

\* a daily page after doc.new_page(width=612, height=792) and create_daily_page
create_daily_page(events, date, day_name, day_index) ==
    LET day_events == LinkedDayEvents(events, date)
    IN  [Page(-1, day_index + 1, LandscapeH, LandscapeW) EXCEPT
            !.day_name = day_name,
            !.date = date.day,
            !.count = Len(day_events),
            !.drawn = LinkedButtons(day_index) \o LinkedSlots(day_events, day_index, 0)]

\* simple_fix.create_simple_pdf: the weekly page carries three text lines only
SimpleNewWeeklyPage(events, ws) ==
    [Page(-1, 0, LandscapeW, LandscapeH) EXCEPT
        !.day_name = "WEEKLY PLANNER",
        !.date = ws.day,
        !.count = Len(events)]

SimpleDayEvents(events, current_date) ==
    SelectSeq(events, LAMBDA e :
        /\ safe_parse_datetime(e.startTime) # None
        /\ SameDate(safe_parse_datetime(e.startTime), current_date))

\* simple_fix.create_simple_pdf: one daily page, listing up to 10 events
SimpleNewDailyPage(events, ws, k) ==
    LET current_date == PlusDays(ws, k)
        day_events == SimpleDayEvents(events, current_date)
        shown == FirstTen(day_events)
    IN  [Page(-1, k + 1, LandscapeH, LandscapeW) EXCEPT
            !.day_name = days[k + 1],
            !.date = current_date.day,
            !.count = Len(day_events),
            !.drawn = [j \in 1..Len(shown) |->
                         Drawn("line", shown[j], k, j - 1,
                               RectPt(50, 120 + 20 * (j - 1), 50, 120 + 20 * (j - 1)))]]

---------------------------------------------------------------------------
(* Link wiring of the two export scripts *)

\* simple_pymypdf_export.add_bidirectional_hyperlinks, first loop
RECURSIVE LinkedWeeklyLinks(_)
LinkedWeeklyLinks(k) ==
    IF k >= NumDays THEN <<>>
    ELSE <<Link(LinkedHeaderRect(k), k + 1)>> \o LinkedWeeklyLinks(k + 1)

\* mutant: the next-day link is wired on Sunday too (no "i < 6" guard)
LinkedDailyLinks_NoSundayGuard(k) ==
    <<Link(RectPt(50, 100, 150, 125), 0)>>
    \o (IF k > 0 THEN <<Link(RectPt(200, 100, 280, 125), k)>> ELSE <<>>)
    \o <<Link(RectPt(320, 100, 400, 125), k + 2)>>

\* mutant: the previous-day link targets day index i-1 instead of page i
LinkedDailyLinks_PrevIndex(k) ==
    <<Link(RectPt(50, 100, 150, 125), 0)>>
    \o (IF k > 0 THEN <<Link(RectPt(200, 100, 280, 125), k - 1)>> ELSE <<>>)
    \o (IF k < 6 THEN <<Link(RectPt(320, 100, 400, 125), k + 2)>> ELSE <<>>)

\* mutant: the next-day guard off by one (i < 5)
LinkedDailyLinks_NextGuard(k) ==
    <<Link(RectPt(50, 100, 150, 125), 0)>>
    \o (IF k > 0 THEN <<Link(RectPt(200, 100, 280, 125), k)>> ELSE <<>>)
    \o (IF k < 5 THEN <<Link(RectPt(320, 100, 400, 125), k + 2)>> ELSE <<>>)

\* simple_pymypdf_export.add_bidirectional_hyperlinks, one pass of the second loop
LinkedDailyLinks(k) ==
    <<Link(RectPt(50, 100, 150, 125), 0)>>
    \o (IF k > 0 THEN <<Link(RectPt(200, 100, 280, 125), k)>> ELSE <<>>)
    \o (IF k < 6 THEN <<Link(RectPt(320, 100, 400, 125), k + 2)>> ELSE <<>>)

\* mutant: the header of day i links to page i instead of page i + 1
RECURSIVE SimpleWeeklyLinks_PageIndex(_)
SimpleWeeklyLinks_PageIndex(k) ==
    IF k >= NumDays THEN <<>>
    ELSE LET x == 50 + (k * 100)
         IN  <<Link(RectPt(x, 120, x + 90, 160), k)>> \o SimpleWeeklyLinks_PageIndex(k + 1)

\* simple_fix.create_simple_pdf: weekly page links to daily pages
RECURSIVE SimpleWeeklyLinks(_)
SimpleWeeklyLinks(k) ==
    IF k >= NumDays THEN <<>>
    ELSE LET x == 50 + (k * 100)
         IN  <<Link(RectPt(x, 120, x + 90, 160), k + 1)>> \o SimpleWeeklyLinks(k + 1)

\* simple_fix.create_simple_pdf: daily pages link back to weekly
SimpleDailyLinks(k) == <<Link(RectPt(50, 100, 180, 120), 0)>>
---------------------------------------------------------------------------
(* Inputs *)

\* the lengths of daily_pdf_paths that are tried
PathCounts == (NumDays - MaxPathSlack)..(NumDays + MaxPathSlack)

\* a path list of n files, all one-page PDFs except at positions a and b;
\* position 0 is the weekly file
InputFiles(n, a, ka, b, kb) ==
    [k \in 0..n |-> IF k = a THEN ka ELSE IF k = b THEN kb ELSE PdfFile(1)]

\* weekStart / weekEnd pairs: a Monday..Sunday week given as dates, as naive
\* timestamps and as Z timestamps (ending Sunday 08:00), a week that starts on
\* a Tuesday, and unparseable bounds
WeekBounds ==
    {<<Stamp("date", 0, 0), Stamp("date", 6, 0)>>,
     <<Stamp("naive", 0, 0), Stamp("naive", 6, MinutesPerDay - 1)>>,
     <<Stamp("z", 0, 0), Stamp("z", 6, 8 * 60)>>,
     <<Stamp("date", 1, 0), Stamp("date", 7, 0)>>,
     <<BadStr, Stamp("date", 6, 0)>>,
     <<Stamp("date", 0, 0), BadStr>>}

\* startTime values: Z timestamps before, at the edges of and after the week,
\* at 00:00 and 08:00; a naive timestamp; an unparseable and a missing one
StartTimes ==
    {Stamp("z", d, m) : d \in {-1, 0, 6, 7}, m \in {0, 8 * 60}}
    \cup {Stamp("naive", 0, 8 * 60), BadStr, EmptyStr}

\* every event lasts one hour
PlusHour(s) ==
    IF s.form \in {"bad", "empty"} THEN s ELSE [s EXCEPT !.minute = @ + 60]

InputEvents == {Event(s, PlusHour(s)) : s \in StartTimes}

EventLists == UNION {[1..n -> InputEvents] : n \in 0..MaxEvents}

\* the state of the two-run and of the layout specification, which the
\* single-run actions leave alone
Aside == <<runs, disk, appointment, layout>>

InitAside ==
    /\ runs = <<>>
    /\ disk = <<>>
    /\ appointment = None
    /\ layout = None

InitLocals ==
    /\ week_start = None
    /\ week_end = None
    /\ week_events = <<>>
    /\ parsing_errors = 0
    /\ doc = <<>>
    /\ i = 0
    /\ saved_pdf = NoFile
    /\ saved_txt = FALSE
    /\ result = Pending

InitPackage ==
    /\ prog = "package"
    /\ pc = "validate"
    /\ \E n \in PathCounts, a, b \in 0..(NumDays + MaxPathSlack), ka, kb \in FileKinds :
          LET files == InputFiles(n, a, ka, b, kb)
          IN  /\ weekly_pdf_path = files[0]
              /\ daily_pdf_paths = [k \in 1..n |-> files[k]]
    /\ events_data = <<>>
    /\ week_start_str = EmptyStr
    /\ week_end_str = EmptyStr
    /\ InitLocals
    /\ InitAside

InitExport ==
    /\ prog \in {"linked", "simple"}
    /\ pc = "parse"
    /\ weekly_pdf_path = MissingFile
    /\ daily_pdf_paths = <<>>
    /\ events_data \in EventLists
    /\ \E b \in WeekBounds : week_start_str = b[1] /\ week_end_str = b[2]
    /\ InitLocals
    /\ InitAside

Init == InitPackage \/ InitExport

---------------------------------------------------------------------------
(* replit_integration.create_bidirectional_weekly_package *)

Locals == <<week_start, week_end, week_events, parsing_errors>>
Inputs == <<prog, weekly_pdf_path, daily_pdf_paths, events_data, week_start_str,
            week_end_str>>

\* mutant: no except clause, the exception leaves the function
PkgReturnFalse_Raises ==
    /\ result' = Raised
    /\ pc' = "done"

\* "return False", from a validation failure or from the except clause
PkgReturnFalse ==
    /\ result' = RetBool(FALSE)
    /\ pc' = "done"

\* what wiring lnks onto page pno of d can do: doc[pno] raises IndexError if
\* the page is missing; insert_link of a link whose target page is missing
\* either raises or stores the link, depending on the PyMuPDF build
WireOutcomes(d, pno, lnks) ==
    IF ~HasPage(d, pno) THEN {[raised |-> TRUE, doc |-> d]}
    ELSE IF TargetsExist(d, lnks)
         THEN {[raised |-> FALSE, doc |-> insert_links(d, pno, lnks)]}
         ELSE {[raised |-> TRUE, doc |-> d],
               [raised |-> FALSE, doc |-> insert_links(d, pno, lnks)]}

\* mutant: a path list shorter than 7 passes validation
PkgInputsValid_AtMostSeven ==
    /\ weekly_pdf_path.exists
    /\ Len(daily_pdf_paths) <= NumDays
    /\ \A k \in 1..Len(daily_pdf_paths) : daily_pdf_paths[k].exists

PkgInputsValid ==
    /\ weekly_pdf_path.exists
    /\ Len(daily_pdf_paths) = NumDays
    /\ \A k \in 1..Len(daily_pdf_paths) : daily_pdf_paths[k].exists

PkgValidate ==
    /\ prog = "package" /\ pc = "validate"
    /\ IF PkgInputsValid
       THEN /\ pc' = "insert_weekly"
            /\ doc' = <<>>
            /\ UNCHANGED result
       ELSE /\ PkgReturnFalse
            /\ UNCHANGED doc
    /\ UNCHANGED <<Aside, Inputs, Locals, i, saved_pdf, saved_txt>>

PkgInsertWeekly ==
    /\ prog = "package" /\ pc = "insert_weekly"
    /\ IF weekly_pdf_path.readable
       THEN /\ doc' = insert_pdf(doc, 0, weekly_pdf_path, LandscapeW, LandscapeH)
            /\ pc' = "insert_daily"
            /\ i' = 1
            /\ UNCHANGED result
       ELSE /\ PkgReturnFalse
            /\ UNCHANGED <<doc, i>>
    /\ UNCHANGED <<Aside, Inputs, Locals, saved_pdf, saved_txt>>

PkgInsertDaily ==
    /\ prog = "package" /\ pc = "insert_daily"
    /\ IF daily_pdf_paths[i].readable
       THEN /\ doc' = insert_pdf(doc, i, daily_pdf_paths[i], LandscapeH, LandscapeW)
            /\ IF i < Len(daily_pdf_paths)
               THEN i' = i + 1 /\ pc' = "insert_daily"
               ELSE i' = 0 /\ pc' = "wire_weekly"
            /\ UNCHANGED result
       ELSE /\ PkgReturnFalse
            /\ UNCHANGED <<doc, i>>
    /\ UNCHANGED <<Aside, Inputs, Locals, saved_pdf, saved_txt>>

PkgWireWeekly ==
    /\ prog = "package" /\ pc = "wire_weekly"
    /\ \E o \in WireOutcomes(doc, 0,
                  IF HasPage(doc, 0)
                  THEN PkgWeeklyLinks(doc[1].width, doc[1].height, 0) ELSE <<>>) :
          IF o.raised
          THEN /\ PkgReturnFalse
               /\ UNCHANGED <<doc, i>>
          ELSE /\ doc' = o.doc
               /\ pc' = "wire_daily"
               /\ i' = 0
               /\ UNCHANGED result
    /\ UNCHANGED <<Aside, Inputs, Locals, saved_pdf, saved_txt>>

\* one pass of "for i, day in enumerate(days)": page_num = i + 1
PkgWireDaily ==
    /\ prog = "package" /\ pc = "wire_daily"
    /\ \E o \in WireOutcomes(doc, i + 1,
                  IF HasPage(doc, i + 1)
                  THEN PkgDailyLinks(doc[i + 2].width, doc[i + 2].height, i) ELSE <<>>) :
          IF o.raised
          THEN /\ PkgReturnFalse
               /\ UNCHANGED <<doc, i>>
          ELSE /\ doc' = o.doc
               /\ IF i + 1 < NumDays
                  THEN i' = i + 1 /\ pc' = "wire_daily"
                  ELSE i' = 0 /\ pc' = "save"
               /\ UNCHANGED result
    /\ UNCHANGED <<Aside, Inputs, Locals, saved_pdf, saved_txt>>

\* doc.save(output_path): writes the file, or raises and leaves the path
\* untouched or holding a truncated file
PkgSave ==
    /\ prog = "package" /\ pc = "save"
    /\ \/ /\ saved_pdf' = PdfOf(doc)
          /\ result' = RetBool(TRUE)
          /\ pc' = "done"
       \/ /\ saved_pdf' \in {saved_pdf, PartialFile}
          /\ PkgReturnFalse
    /\ UNCHANGED <<Aside, Inputs, Locals, doc, i, saved_txt>>

NextPackage ==
    \/ PkgValidate
    \/ PkgInsertWeekly
    \/ PkgInsertDaily
    \/ PkgWireWeekly
    \/ PkgWireDaily
    \/ PkgSave
---------------------------------------------------------------------------
(* simple_pymypdf_export.create_bidirectional_linked_pdf *)

Files == <<saved_pdf, saved_txt>>

\* "Parse dates": an unparseable bound raises into the except clause
LinkedParse ==
    /\ prog = "linked" /\ pc = "parse"
    /\ IF fromisoformat(week_start_str) = None \/ fromisoformat(week_end_str) = None
       THEN /\ pc' = "fallback"
            /\ week_start' = fromisoformat(week_start_str)
            /\ UNCHANGED week_end
       ELSE /\ week_start' = fromisoformat(week_start_str)
            /\ week_end' = fromisoformat(week_end_str)
            /\ pc' = "filter"
    /\ UNCHANGED <<Aside, Inputs, week_events, parsing_errors, doc, i, Files, result>>

LinkedFilter ==
    /\ prog = "linked" /\ pc = "filter"
    /\ week_events' = filter_events_for_week(events_data, week_start, week_end)
    /\ pc' = "weekly_page"
    /\ UNCHANGED <<Aside, Inputs, week_start, week_end, parsing_errors, doc, i, Files, result>>

\* doc = fitz.open(); weekly_page = doc.new_page(...); create_weekly_overview_page
LinkedWeeklyPage ==
    /\ prog = "linked" /\ pc = "weekly_page"
    /\ doc' = <<create_weekly_overview_page(week_events, week_start)>>
    /\ pc' = "daily_page"
    /\ i' = 0
    /\ UNCHANGED <<Aside, Inputs, Locals, Files, result>>

\* one pass of "for i, day_name in enumerate(days)"
LinkedDailyPage ==
    /\ prog = "linked" /\ pc = "daily_page"
    /\ LET current_date == PlusDays(week_start, i)
       IN  doc' = Append(doc, create_daily_page(week_events, current_date, days[i + 1], i))
    /\ IF i + 1 < NumDays
       THEN i' = i + 1 /\ pc' = "daily_page"
       ELSE i' = 0 /\ pc' = "wire_weekly"
    /\ UNCHANGED <<Aside, Inputs, Locals, Files, result>>

\* add_bidirectional_hyperlinks: weekly_page = doc[0] and the first loop
LinkedWireWeekly ==
    /\ prog = "linked" /\ pc = "wire_weekly"
    /\ \E o \in WireOutcomes(doc, 0, LinkedWeeklyLinks(0)) :
          IF o.raised
          THEN pc' = "fallback" /\ UNCHANGED <<doc, i>>
          ELSE doc' = o.doc /\ pc' = "wire_daily" /\ i' = 0
    /\ UNCHANGED <<Aside, Inputs, Locals, Files, result>>

\* add_bidirectional_hyperlinks: one pass of "for i in range(7)"
LinkedWireDaily ==
    /\ prog = "linked" /\ pc = "wire_daily"
    /\ \E o \in WireOutcomes(doc, i + 1, LinkedDailyLinks(i)) :
          IF o.raised
          THEN pc' = "fallback" /\ UNCHANGED <<doc, i>>
          ELSE /\ doc' = o.doc
               /\ IF i + 1 < NumDays
                  THEN i' = i + 1 /\ pc' = "wire_daily"
                  ELSE i' = 0 /\ pc' = "save"
    /\ UNCHANGED <<Aside, Inputs, Locals, Files, result>>

\* doc.save(filename); a failure raises into the except clause
LinkedSave ==
    /\ prog = "linked" /\ pc = "save"
    /\ \/ /\ saved_pdf' = PdfOf(doc)
          /\ result' = RetFile("pdf", week_start.day)
          /\ pc' = "done"
       \/ /\ saved_pdf' \in {saved_pdf, PartialFile}
          /\ pc' = "fallback"
          /\ UNCHANGED result
    /\ UNCHANGED <<Aside, Inputs, Locals, doc, i, saved_txt>>

\* simple_pymypdf_export.create_text_fallback: returns the .txt filename, or
\* None when weekStart does not parse or the file cannot be written
create_text_fallback ==
    /\ prog = "linked" /\ pc = "fallback"
    /\ IF fromisoformat(week_start_str) = None
       THEN result' = RetNone /\ UNCHANGED saved_txt
       ELSE \/ /\ saved_txt' = TRUE
               /\ result' = RetFile("txt", fromisoformat(week_start_str).day)
            \/ /\ result' = RetNone
               /\ UNCHANGED saved_txt
    /\ pc' = "done"
    /\ UNCHANGED <<Aside, Inputs, Locals, doc, i, saved_pdf>>

NextLinked ==
    \/ LinkedParse
    \/ LinkedFilter
    \/ LinkedWeeklyPage
    \/ LinkedDailyPage
    \/ LinkedWireWeekly
    \/ LinkedWireDaily
    \/ LinkedSave
    \/ create_text_fallback

---------------------------------------------------------------------------
(* simple_fix.create_simple_pdf *)

\* week_start = safe_parse_datetime(week_start_str)
SimpleParse ==
    /\ prog = "simple" /\ pc = "parse"
    /\ week_start' = safe_parse_datetime(week_start_str)
    /\ pc' = "filter"
    /\ UNCHANGED <<Aside, Inputs, week_end, week_events, parsing_errors, doc, i, Files, result>>

\* week_events = filter_events_safe(...); filename = week_start.strftime(...)
\* raises AttributeError into the except clause when week_start is None
SimpleFilter ==
    /\ prog = "simple" /\ pc = "filter"
    /\ LET r == filter_events_safe(events_data, week_start_str, week_end_str)
       IN  /\ week_events' = r.week_events
           /\ parsing_errors' = r.parsing_errors
    /\ week_end' = safe_parse_datetime(week_end_str)
    /\ pc' = IF week_start = None THEN "fallback" ELSE "weekly_page"
    /\ UNCHANGED <<Aside, Inputs, week_start, doc, i, Files, result>>

SimpleWeeklyPage ==
    /\ prog = "simple" /\ pc = "weekly_page"
    /\ doc' = <<SimpleNewWeeklyPage(week_events, week_start)>>
    /\ pc' = "daily_page"
    /\ i' = 0
    /\ UNCHANGED <<Aside, Inputs, Locals, Files, result>>

\* one pass of "for i, day in enumerate(days)"
SimpleDailyPage ==
    /\ prog = "simple" /\ pc = "daily_page"
    /\ doc' = Append(doc, SimpleNewDailyPage(week_events, week_start, i))
    /\ IF i + 1 < NumDays
       THEN i' = i + 1 /\ pc' = "daily_page"
       ELSE i' = 0 /\ pc' = "wire_weekly"
    /\ UNCHANGED <<Aside, Inputs, Locals, Files, result>>

\* weekly_page = doc[0]; for i in range(7): insert_link(... "page": i + 1)
SimpleWireWeekly ==
    /\ prog = "simple" /\ pc = "wire_weekly"
    /\ \E o \in WireOutcomes(doc, 0, SimpleWeeklyLinks(0)) :
          IF o.raised
          THEN pc' = "fallback" /\ UNCHANGED <<doc, i>>
          ELSE doc' = o.doc /\ pc' = "wire_daily" /\ i' = 0
    /\ UNCHANGED <<Aside, Inputs, Locals, Files, result>>

\* one pass of "for i in range(7): daily_page = doc[i + 1]; insert_link(... 0)"
SimpleWireDaily ==
    /\ prog = "simple" /\ pc = "wire_daily"
    /\ \E o \in WireOutcomes(doc, i + 1, SimpleDailyLinks(i)) :
          IF o.raised
          THEN pc' = "fallback" /\ UNCHANGED <<doc, i>>
          ELSE /\ doc' = o.doc
               /\ IF i + 1 < NumDays
                  THEN i' = i + 1 /\ pc' = "wire_daily"
                  ELSE i' = 0 /\ pc' = "save"
    /\ UNCHANGED <<Aside, Inputs, Locals, Files, result>>

SimpleSave ==
    /\ prog = "simple" /\ pc = "save"
    /\ \/ /\ saved_pdf' = PdfOf(doc)
          /\ result' = RetFile("pdf", week_start.day)
          /\ pc' = "done"
       \/ /\ saved_pdf' \in {saved_pdf, PartialFile}
          /\ pc' = "fallback"
          /\ UNCHANGED result
    /\ UNCHANGED <<Aside, Inputs, Locals, doc, i, saved_txt>>

\* simple_fix.create_text_fallback: no try/except, so an unparseable weekStart
\* or a failed write raises out of create_simple_pdf
SimpleTextFallback ==
    /\ prog = "simple" /\ pc = "fallback"
    /\ IF safe_parse_datetime(week_start_str) = None
       THEN result' = Raised /\ UNCHANGED saved_txt
       ELSE \/ /\ saved_txt' = TRUE
               /\ result' = RetFile("txt", safe_parse_datetime(week_start_str).day)
            \/ /\ result' = Raised
               /\ UNCHANGED saved_txt
    /\ pc' = "done"
    /\ UNCHANGED <<Aside, Inputs, Locals, doc, i, saved_pdf>>

NextSimple ==
    \/ SimpleParse
    \/ SimpleFilter
    \/ SimpleWeeklyPage
    \/ SimpleDailyPage
    \/ SimpleWireWeekly
    \/ SimpleWireDaily
    \/ SimpleSave
    \/ SimpleTextFallback

---------------------------------------------------------------------------

Next == NextPackage \/ NextLinked \/ NextSimple

Spec == Init /\ [][Next]_vars
---------------------------------------------------------------------------
(* The link graph of a document *)

\* link wiring has returned: the document is about to be saved, or was saved
Wired == pc = "save" \/ saved_pdf.state = "complete"

\* the sites of the links of d: <<page number, position on the page>>
LinkSites(d) ==
    UNION {{<<p, n>> : n \in 1..Len(d[p + 1].links)} : p \in 0..(Len(d) - 1)}

TargetOf(d, s) == d[s[1] + 1].links[s[2]].page

\* the link edges by kind
WeeklyToDay(d) == {s \in LinkSites(d) : s[1] = 0 /\ TargetOf(d, s) \in 1..NumDays}
DayToWeekly(d) == {s \in LinkSites(d) : s[1] \in 1..NumDays /\ TargetOf(d, s) = 0}
DayToPrev(d) ==
    {s \in LinkSites(d) : s[1] \in 1..NumDays /\ TargetOf(d, s) = s[1] - 1
                                              /\ TargetOf(d, s) >= 1}
DayToNext(d) ==
    {s \in LinkSites(d) : s[1] \in 1..NumDays /\ TargetOf(d, s) = s[1] + 1}

\* the page-to-page edges, whatever their region
PageEdges(d) == {<<s[1], TargetOf(d, s)>> : s \in LinkSites(d)}

---------------------------------------------------------------------------
(* C1 *)

---------------------------------------------------------------------------
(* C2 *)

\* C2: after link wiring (by any of the three entry points) every link edge
\* on every page targets a page index in 0..7 that the document holds
C2_NoDanglingEdge ==
    Wired =>
        \A s \in LinkSites(doc) :
            /\ TargetOf(doc, s) \in 0..NumDays
            /\ HasPage(doc, TargetOf(doc, s))

\* a wired document whose last page (Sunday) is a link target
C2_Witness ==
    /\ Wired
    /\ \E s \in LinkSites(doc) : TargetOf(doc, s) = NumDays
    /\ \E s \in LinkSites(doc) : s[1] = NumDays /\ TargetOf(doc, s) = 0

---------------------------------------------------------------------------
(* C3 *)

\* the targets of the links on page p that do not lead to the weekly page
DayTargets(d, p) == {TargetOf(d, s) : s \in {t \in LinkSites(d) : t[1] = p}} \ {0}

\* C3: after wiring by add_bidirectional_hyperlinks or
\* _add_hyperlinks_to_package, the page of day k (page k+1) has a previous-day
\* edge iff k > 0, to the page of day k-1 (page k), and a next-day edge iff
\* k < 6, to the page of day k+1 (page k+2); it has one of each at most and no
\* other edge to a daily page
C3_PrevNextEdges ==
    (prog \in {"linked", "package"} /\ Wired) =>
        \A k \in 0..(NumDays - 1) :
            /\ DayTargets(doc, k + 1) =
                  (IF k > 0 THEN {k} ELSE {}) \cup (IF k < 6 THEN {k + 2} ELSE {})
            /\ Cardinality({s \in DayToPrev(doc) : s[1] = k + 1}) = IF k > 0 THEN 1 ELSE 0
            /\ Cardinality({s \in DayToNext(doc) : s[1] = k + 1}) = IF k < 6 THEN 1 ELSE 0

\* wiring by add_bidirectional_hyperlinks has completed: Monday has a next
\* edge only, Sunday a previous edge only
C3_Witness ==
    /\ prog = "linked" /\ Wired
    /\ DayTargets(doc, 1) = {2}
    /\ DayTargets(doc, NumDays) = {NumDays - 1}

---------------------------------------------------------------------------
(* C4 *)

\* C4: the weekly page carries exactly one link edge per day column: it has
\* 7 links, the k-th header region links to page k+1 (so no two regions link
\* to the same page), and the regions lie side by side from left to right
C4_WeeklyHeaderLinks ==
    Wired =>
        /\ Len(doc[1].links) = NumDays
        /\ \A k \in 1..NumDays : doc[1].links[k].page = k
        /\ \A k \in 1..NumDays :
              doc[1].links[k].from[1] < doc[1].links[k].from[3]
        /\ \A k \in 1..(NumDays - 1) :
              doc[1].links[k].from[3] <= doc[1].links[k + 1].from[1]

\* create_simple_pdf has wired the weekly page: 7 links, the last to page 7
C4_Witness ==
    /\ Wired
    /\ prog = "simple"
    /\ Len(doc[1].links) = NumDays
    /\ doc[1].links[NumDays].page = NumDays

---------------------------------------------------------------------------
(* C5 *)

\* C5: in the assembled package every page-to-page link has a reverse link:
\* whenever page p carries an edge to page q, page q carries an edge to p
C5_ReverseLinks ==
    Wired =>
        \A e \in PageEdges(doc) : <<e[2], e[1]>> \in PageEdges(doc)

\* a wired document with the edges Monday -> Tuesday and Tuesday -> Monday
C5_Witness ==
    /\ Wired
    /\ <<1, 2>> \in PageEdges(doc)
    /\ <<2, 1>> \in PageEdges(doc)
    /\ <<0, NumDays>> \in PageEdges(doc)
---------------------------------------------------------------------------
(* C6 *)

\* the pages the input files hold when every one of them can be opened
RECURSIVE DailyPagesSupplied(_)
DailyPagesSupplied(paths) ==
    IF paths = <<>> THEN 0
    ELSE (IF Head(paths).exists /\ Head(paths).readable THEN Head(paths).npages ELSE 0)
           + DailyPagesSupplied(Tail(paths))

\* some input PDF does not contribute exactly one page
OddPageCount ==
    \/ weekly_pdf_path.readable /\ weekly_pdf_path.npages # 1
    \/ \E k \in 1..Len(daily_pdf_paths) :
          daily_pdf_paths[k].readable /\ daily_pdf_paths[k].npages # 1

\* C6 as stated: whenever create_bidirectional_weekly_package returns True
\* the saved document has exactly 8 pages, page 0 from the weekly PDF and page
\* k from daily_pdf_paths[k-1]; an input PDF that does not contribute exactly
\* one page makes the call fail without a document being linked and saved
C6_EightPagesOrRejected ==
    (prog = "package" /\ pc = "done") =>
        /\ result = RetBool(TRUE) =>
              /\ saved_pdf.state = "complete"
              /\ Len(saved_pdf.pages) = NumDays + 1
              /\ \A k \in 0..NumDays :
                    saved_pdf.pages[k + 1].origin = [file |-> k, idx |-> 0]
        /\ (PkgInputsValid /\ OddPageCount) =>
              /\ result = RetBool(FALSE)
              /\ saved_pdf.state # "complete"

---------------------------------------------------------------------------
(* C7 *)

\* C7: if fewer than 7 daily pages are supplied the export is rejected as a
\* whole: wiring never completes on a document that lacks a page, the call
\* returns False and nothing is written at output_path
C7_FewerDailyPagesRejected ==
    (prog = "package" /\ DailyPagesSupplied(daily_pdf_paths) < NumDays) =>
        /\ ~Wired
        /\ saved_pdf = NoFile
        /\ result # RetBool(TRUE)
        /\ pc = "done" => result = RetBool(FALSE)

\* six one-page daily PDFs were supplied and the call has returned False
C7_Witness ==
    /\ prog = "package" /\ pc = "done"
    /\ weekly_pdf_path.readable
    /\ Len(daily_pdf_paths) = NumDays - 1
    /\ DailyPagesSupplied(daily_pdf_paths) = NumDays - 1
    /\ result = RetBool(FALSE)

---------------------------------------------------------------------------
(* C8 *)

\* the name of the weekday of a day number (day 0 is a Monday)
WeekdayName(d) == days[(d % NumDays) + 1]

\* a valid 7-day week: Monday to the Sunday six days later
ValidWeek ==
    /\ week_start # None /\ week_end # None
    /\ WeekdayName(week_start.day) = "Monday"
    /\ week_end.day = week_start.day + 6

\* C8: a successful run of create_bidirectional_linked_pdf or
\* create_simple_pdf saves a document of exactly 8 pages in the order
\* [weekly, Monday, ..., Sunday], where daily page k+1 carries the date
\* weekStart + k days; for a valid week that date falls on the page's weekday
C8_EightPagesInOrder ==
    (prog \in {"linked", "simple"} /\ result.kind = "file" /\ result.ext = "pdf") =>
        /\ saved_pdf.state = "complete"
        /\ LET pages == saved_pdf.pages
           IN  /\ Len(pages) = NumDays + 1
               /\ pages[1].day_name = "WEEKLY PLANNER"
               /\ pages[1].width = LandscapeW /\ pages[1].height = LandscapeH
               /\ \A k \in 0..(NumDays - 1) :
                     /\ pages[k + 2].day_name = days[k + 1]
                     /\ pages[k + 2].date = week_start.day + k
                     /\ pages[k + 2].width = LandscapeH
                     /\ pages[k + 2].height = LandscapeW
                     /\ ValidWeek => WeekdayName(pages[k + 2].date) = pages[k + 2].day_name

\* a valid week was exported to a PDF whose last page is Sunday, day 6
C8_Witness ==
    /\ prog = "linked" /\ result = RetFile("pdf", 0)
    /\ ValidWeek
    /\ saved_pdf.state = "complete"
    /\ saved_pdf.pages[NumDays + 1].day_name = "Sunday"
    /\ saved_pdf.pages[NumDays + 1].date = 6

---------------------------------------------------------------------------
(* C9 *)

\* the elements of a sequence
Range(s) == {s[n] : n \in 1..Len(s)}

\* the week filter has run with both bounds parsed
FilterRan ==
    /\ prog \in {"linked", "simple"}
    /\ pc \notin {"parse", "filter"}
    /\ week_start # None /\ week_end # None

\* the event's startTime parses to a time t with weekStart <= t <= weekEnd
InWeek(e) ==
    /\ fromisoformat(e.startTime) # None
    /\ Instant(week_start) <= Instant(fromisoformat(e.startTime))
    /\ Instant(fromisoformat(e.startTime)) <= Instant(week_end)

\* t can be compared with both bounds
ComparableWithWeek(e) ==
    /\ fromisoformat(e.startTime) # None
    /\ fromisoformat(e.startTime).aware = week_start.aware
    /\ fromisoformat(e.startTime).aware = week_end.aware

\* the events drawn anywhere in the document
DrawnEvents(d) ==
    UNION {{d[p].drawn[n].event :
               n \in {m \in 1..Len(d[p].drawn) : d[p].drawn[m].what \in {"event", "line"}}}
           : p \in 1..Len(d)}

---------------------------------------------------------------------------
(* C10 *)

\* weekStart "2025-07-14", weekEnd "2025-07-20" and one event from
\* "2025-07-14T08:00:00Z" to "2025-07-14T09:00:00Z"
Nora == Event(Stamp("z", 0, 8 * 60), Stamp("z", 0, 9 * 60))

ScenarioInput ==
    /\ week_start_str = Stamp("date", 0, 0)
    /\ week_end_str = Stamp("date", 6, 0)
    /\ events_data = <<Nora>>

\* the blocks drawn for event e on page number p of d
BlocksOf(d, p, e) ==
    {n \in 1..Len(d[p + 1].drawn) :
        d[p + 1].drawn[n].what \in {"event", "line"} /\ d[p + 1].drawn[n].event = e}

\* C10 as stated: for the scenario input the event passes the week filter and
\* appears only on the Monday page and in Monday's weekly-grid column, at slot
\* index 4 with a height of 2 slots
C10_ScenarioOnMonday ==
    (prog \in {"linked", "simple"} /\ ScenarioInput /\ pc = "done"
       /\ result = RetFile("pdf", 0)) =>
        /\ week_events = <<Nora>>
        /\ BlocksOf(doc, 1, Nora) # {}
        /\ \A p \in 2..NumDays : BlocksOf(doc, p, Nora) = {}
        /\ prog = "linked" =>
              /\ \A n \in BlocksOf(doc, 0, Nora) : doc[1].drawn[n].col = 0
              /\ BlocksOf(doc, 0, Nora) # {}
              /\ \A n \in BlocksOf(doc, 1, Nora) :
                    /\ doc[2].drawn[n].row = 4
                    /\ doc[2].drawn[n].rect[4] - doc[2].drawn[n].rect[2]
                          >= (2 * slot_height - 4) * Scale

---------------------------------------------------------------------------
(* A malformed startTime in the week filter *)

\* the positions of the input events whose startTime is text that is no date
Malformed == {n \in 1..Len(events_data) : events_data[n].startTime = BadStr}

\* C11: once the week filter has run, no event with an unparseable startTime
\* is among the events it returned, every such event has been counted in the
\* recorded number of parsing errors, and the other events have still been
\* filtered: those inside the week are all returned
C11_MalformedSkippedAndCounted ==
    FilterRan =>
        /\ \A n \in Malformed : events_data[n] \notin Range(week_events)
        /\ parsing_errors >= Cardinality(Malformed)
        /\ \A n \in 1..Len(events_data) :
              InWeek(events_data[n]) /\ ComparableWithWeek(events_data[n])
                  => events_data[n] \in Range(week_events)

---------------------------------------------------------------------------
(* The week filter returns a subsequence of its input *)

\* s is t with some of its positions left out: same order, each position of t
\* used at most once
RECURSIVE IsSubsequence(_, _)
IsSubsequence(s, t) ==
    IF s = <<>> THEN TRUE
    ELSE IF t = <<>> THEN FALSE
    ELSE IF Head(s) = Head(t) /\ IsSubsequence(Tail(s), Tail(t)) THEN TRUE
    ELSE IsSubsequence(s, Tail(t))

\* C12: in every step the input list of events stays as it was and the events
\* the week filter has returned are a subsequence of it: they keep the order
\* of the input and no position of the input is returned twice
C12_FilterSubsequence ==
    [][/\ events_data' = events_data
       /\ IsSubsequence(week_events', events_data)]_vars

\* the filter has returned two different events of a two-event input
C12_Witness ==
    /\ FilterRan
    /\ Len(week_events) = 2
    /\ week_events[1] # week_events[2]

---------------------------------------------------------------------------
(* main of simple_pymypdf_export.py and of simple_fix.py *)

\* what main does with the value the export function handed back: it prints
\* a filename and ends with status 0, or prints a failure line and ends with
\* sys.exit(1); an exception that reaches main ends with sys.exit(1) too
LinkedMain(filename) ==
    IF filename.kind = "file"
    THEN [printed |-> filename, status |-> 0]
    ELSE [printed |-> None, status |-> 1]

SimpleMain(filename) ==
    IF filename.kind = "file"
    THEN [printed |-> filename, status |-> 0]
    ELSE [printed |-> None, status |-> 1]

\* the outcome of the script once its export function is done
MainOutcome == IF prog = "simple" THEN SimpleMain(result) ELSE LinkedMain(result)

\* an export script is over
ExportDone == prog \in {"linked", "simple"} /\ pc = "done"

\* C13: when the week bounds were readable and the export ended without a
\* complete PDF, so that building or saving it failed, no text file has been
\* written in its place and main has printed no filename and ended with
\* status 1
C13_FailurePropagates ==
    (ExportDone /\ week_start # None /\ week_end # None
         /\ saved_pdf.state # "complete")
        => /\ ~saved_txt
           /\ MainOutcome.printed = None
           /\ MainOutcome.status = 1

\* weekStart or weekEnd of the input is text that no parser reads as a date
UnparseableBounds ==
    \/ fromisoformat(week_start_str) = None
    \/ fromisoformat(week_end_str) = None

\* C14: an export whose week bounds cannot be parsed never writes a file,
\* neither the PDF nor the text file, and ends with the failure status
C14_BadBoundsAbort ==
    (prog \in {"linked", "simple"} /\ UnparseableBounds)
        => /\ saved_pdf = NoFile
           /\ ~saved_txt
           /\ pc = "done" => MainOutcome.status = 1

---------------------------------------------------------------------------
(* What a failed run leaves at the destination *)

\* C15: when a run is over and has not saved a complete PDF, the destination
\* path is as it was before the run, that is absent: it never holds a file
\* that was written in part
C15_AllOrNothing ==
    (pc = "done" /\ saved_pdf.state # "complete") => saved_pdf = NoFile

---------------------------------------------------------------------------
(* Two concurrent runs of create_bidirectional_linked_pdf in one working   *)
(* directory: each run has its own locals, the files are shared            *)

\* each request carries at most MaxRunEvents events
MaxRunEvents == 1

Runs == {1, 2}

\* the weeks asked for: the week of 2025-07-14 and the week after it
RunWeeks ==
    {<<Stamp("z", 0, 0), Stamp("z", 6, 8 * 60)>>,
     <<Stamp("z", 7, 0), Stamp("z", 13, 8 * 60)>>}

RunEvents ==
    {Event(s, PlusHour(s)) : s \in {Stamp("z", 0, 8 * 60), Stamp("z", 7, 8 * 60)}}

RunEventLists == UNION {[1..n -> RunEvents] : n \in 0..MaxRunEvents}

\* the names create_bidirectional_linked_pdf and create_text_fallback derive
\* from weekStart: bidirectional_weekly_planner_<date>.pdf and .txt
FileNames == {RetFile(ext, b[1].day) : ext \in {"pdf", "txt"}, b \in RunWeeks}

\* what create_text_fallback writes: the two bounds as given and len(events_data)
TextOf(evs, ws_str, we_str) ==
    [state |-> "text", week_start_str |-> ws_str, week_end_str |-> we_str,
     count |-> Len(evs)]

\* add_bidirectional_hyperlinks: the passes of "for i in range(7)" from k on
RECURSIVE LinkedWireDays(_, _)
LinkedWireDays(d, k) ==
    IF k >= NumDays THEN d
    ELSE LinkedWireDays(insert_links(d, k + 1, LinkedDailyLinks(k)), k + 1)

\* the document create_bidirectional_linked_pdf builds between "Filter events
\* for the week" and "Save the document"
LinkedDocument(evs, ws, we) ==
    LET filtered == filter_events_for_week(evs, ws, we)
        pages == <<create_weekly_overview_page(filtered, ws)>>
                 \o [k \in 1..NumDays |->
                        create_daily_page(filtered, PlusDays(ws, k - 1), days[k], k - 1)]
    IN  LinkedWireDays(insert_links(pages, 0, LinkedWeeklyLinks(0)), 0)

InitTwoRuns ==
    /\ prog = "two_runs"
    /\ pc = "idle"
    /\ weekly_pdf_path = MissingFile
    /\ daily_pdf_paths = <<>>
    /\ events_data = <<>>
    /\ week_start_str = EmptyStr
    /\ week_end_str = EmptyStr
    /\ InitLocals
    /\ appointment = None
    /\ layout = None
    /\ disk = [f \in FileNames |-> NoFile]
    /\ runs \in [Runs -> {[pc |-> "parse", events_data |-> evs,
                           week_start_str |-> b[1], week_end_str |-> b[2],
                           week_start |-> None, week_end |-> None,
                           filename |-> None, doc |-> <<>>, result |-> Pending] :
                              evs \in RunEventLists, b \in RunWeeks}]

OneRun == <<prog, pc, weekly_pdf_path, daily_pdf_paths, events_data, week_start_str,
            week_end_str, week_start, week_end, week_events, parsing_errors, doc, i,
            saved_pdf, saved_txt, result>>

\* "Parse dates" and "Generate filename"
RunParse(r) ==
    /\ runs[r].pc = "parse"
    /\ LET ws == fromisoformat(runs[r].week_start_str)
           we == fromisoformat(runs[r].week_end_str)
       IN  IF ws = None \/ we = None
           THEN runs' = [runs EXCEPT ![r].pc = "fallback", ![r].week_start = ws]
           ELSE runs' = [runs EXCEPT ![r].pc = "build",
                                     ![r].week_start = ws,
                                     ![r].week_end = we,
                                     ![r].filename = RetFile("pdf", ws.day)]
    /\ UNCHANGED <<OneRun, disk, appointment, layout>>

\* filter, fitz.open(), the eight pages and the links: all in memory
RunBuild(r) ==
    /\ runs[r].pc = "build"
    /\ runs' = [runs EXCEPT ![r].pc = "save",
                            ![r].doc = LinkedDocument(runs[r].events_data,
                                                      runs[r].week_start,
                                                      runs[r].week_end)]
    /\ UNCHANGED <<OneRun, disk, appointment, layout>>

\* doc.save(filename); return filename.  A failure raises into the except clause
RunSave(r) ==
    /\ runs[r].pc = "save"
    /\ \/ /\ disk' = [disk EXCEPT ![runs[r].filename] = PdfOf(runs[r].doc)]
          /\ runs' = [runs EXCEPT ![r].pc = "done", ![r].result = runs[r].filename]
       \/ /\ \E left \in {disk[runs[r].filename], PartialFile} :
                disk' = [disk EXCEPT ![runs[r].filename] = left]
          /\ runs' = [runs EXCEPT ![r].pc = "fallback"]
    /\ UNCHANGED <<OneRun, appointment, layout>>

\* return create_text_fallback(events_data, week_start_str, week_end_str)
RunFallback(r) ==
    /\ runs[r].pc = "fallback"
    /\ LET ws == fromisoformat(runs[r].week_start_str)
       IN  IF ws = None
           THEN /\ runs' = [runs EXCEPT ![r].pc = "done", ![r].result = RetNone]
                /\ UNCHANGED disk
           ELSE \/ /\ disk' = [disk EXCEPT ![RetFile("txt", ws.day)] =
                                   TextOf(runs[r].events_data, runs[r].week_start_str,
                                          runs[r].week_end_str)]
                   /\ runs' = [runs EXCEPT ![r].pc = "done",
                                           ![r].result = RetFile("txt", ws.day)]
                \/ /\ runs' = [runs EXCEPT ![r].pc = "done", ![r].result = RetNone]
                   /\ UNCHANGED disk
    /\ UNCHANGED <<OneRun, appointment, layout>>

NextTwoRuns ==
    \E r \in Runs : RunParse(r) \/ RunBuild(r) \/ RunSave(r) \/ RunFallback(r)

SpecTwoRuns == InitTwoRuns /\ [][NextTwoRuns]_vars

\* the file run r wrote on its own would hold
OwnExport(r) ==
    IF runs[r].result.ext = "pdf"
    THEN PdfOf(runs[r].doc)
    ELSE TextOf(runs[r].events_data, runs[r].week_start_str, runs[r].week_end_str)

\* C16: when both runs are over, the file each run reported holds exactly
\* that run's own export
C16_RunsIndependent ==
    (\A q \in Runs : runs[q].pc = "done")
        => \A r \in Runs :
              runs[r].result.kind = "file" => disk[runs[r].result] = OwnExport(r)

---------------------------------------------------------------------------
(* create_bidirectional_weekly_package always returns a bool *)

\* one of the given PDFs exists and cannot be opened by fitz
SomeFileUnreadable ==
    \/ weekly_pdf_path.exists /\ ~weekly_pdf_path.readable
    \/ \E k \in 1..Len(daily_pdf_paths) :
          daily_pdf_paths[k].exists /\ ~daily_pdf_paths[k].readable

\* C17: create_bidirectional_weekly_package always has a next step until it
\* returns, and what it returns is True or False, never an exception; it
\* returns True only with the assembled document saved at the output path;
\* it returns False when validation fails (weekly PDF missing, not 7 daily
\* paths, a daily PDF missing), and then no document was opened and nothing
\* was written; it returns False when a given PDF cannot be opened, and it
\* never returns False with a complete file saved
C17_PackageReturnsBool ==
    prog = "package" =>
        /\ pc # "done" => ENABLED NextPackage
        /\ pc = "done" => result \in {RetBool(TRUE), RetBool(FALSE)}
        /\ result = RetBool(TRUE) => pc = "done" /\ saved_pdf = PdfOf(doc)
        /\ (pc = "done" /\ ~PkgInputsValid)
              => result = RetBool(FALSE) /\ doc = <<>> /\ saved_pdf = NoFile
        /\ (pc = "done" /\ SomeFileUnreadable) => result = RetBool(FALSE)
        /\ result = RetBool(FALSE) => saved_pdf.state # "complete"

\* all inputs passed validation, a PDF could not be opened, False came back
C17_Witness ==
    /\ prog = "package" /\ pc = "done"
    /\ PkgInputsValid /\ SomeFileUnreadable
    /\ result = RetBool(FALSE)

---------------------------------------------------------------------------
(* Slot positions and block heights: pdf_generator_enhanced,                *)
(* daily_view_audit and replit_daily_planner.  A time of day is the text   *)
(* "HH:MM"; an appointment is on one day.                                  *)

\* an appointment lasts 0..MaxQuarters quarters of an hour
MaxQuarters == 6
\* a list of notes or of action items holds 0..MaxItems lines
MaxItems == 1

\* the text "HH:MM", and a text that is no time of day ('' or 'soon')
Clock(h, m) == [ok |-> TRUE, hour |-> h, minute |-> m]
BadClock == [ok |-> FALSE, hour |-> 0, minute |-> 0]

\* pdf_generator_enhanced._time_to_minutes: 0 for a text it cannot read
_time_to_minutes(time_str) ==
    IF ~time_str.ok THEN 0 ELSE time_str.hour * 60 + time_str.minute

\* _generate_time_slots: "06:00", "06:30", ..., "23:30", numbered from 0
_generate_time_slots ==
    [n \in 1..36 |-> Clock(6 + (n - 1) \div 2, 30 * ((n - 1) % 2))]

\* _is_event_at_time(event, time_slot)
_is_event_at_time(ev, time_slot) ==
    LET event_start == _time_to_minutes(ev.startTime)
        event_end == _time_to_minutes(ev.endTime)
        slot_time == _time_to_minutes(time_slot)
    IN  slot_time >= event_start /\ slot_time < event_end

\* Python's int() of the quotient n / d of two integers, d > 0: towards zero
IntOfQuotient(n, d) == IF n >= 0 THEN n \div d ELSE -((-n) \div d)

\* the integers r in 0..1440 for which the float (r / 30) * 30 falls just
\* short of r, so that int() of it is r - 1
RoundsShort ==
    {123, 245, 246, 247, 490, 492, 494, 505, 507, 509, 965, 969, 973, 980,
     984, 988, 995, 999, 1003, 1010, 1014, 1018}

\* int((r / 30) * 30) in float arithmetic, for -1440 <= r <= 1440
IntOfTimesThirty(r) ==
    IF r \in RoundsShort THEN r - 1
    ELSE IF (-r) \in RoundsShort THEN r + 1
    ELSE r

\* _calculate_event_height: int((duration / 30) * 20)
_calculate_event_height(ev) ==
    LET duration == _time_to_minutes(ev.endTime) - _time_to_minutes(ev.startTime)
    IN  IntOfQuotient(duration * 20, 30)

_calculate_daily_top_position(ev) ==
    LET start_minutes == _time_to_minutes(ev.startTime)
        day_start_minutes == _time_to_minutes(Clock(6, 0))
        relative_minutes == start_minutes - day_start_minutes
    IN  IntOfTimesThirty(relative_minutes)

\* the value under one of the keys eventNotes, notes, actionItems, actions:
\* the key is absent, or holds a list of len lines, or a non-empty text
Absent == [kind |-> "absent", len |-> 0]
ListOf(n) == [kind |-> "list", len |-> n]
SomeText == [kind |-> "text", len |-> 1]

\* bool(event.get(key))
Truthy(v) == v.kind = "text" \/ (v.kind = "list" /\ v.len > 0)

\* event.get(first, event.get(second, [])): the second key is read only
\* when the first is absent
GetOrElse(first, second) ==
    IF first.kind # "absent" THEN first
    ELSE IF second.kind # "absent" THEN second
    ELSE ListOf(0)

\* len(v) if isinstance(v, list) else (1 if v else 0)
CountOf(v) == IF v.kind = "list" THEN v.len ELSE IF Truthy(v) THEN 1 ELSE 0

_calculate_daily_event_height(ev) ==
    LET duration == _time_to_minutes(ev.endTime) - _time_to_minutes(ev.startTime)
        base_height == IntOfTimesThirty(duration)
        has_details == Truthy(ev.eventNotes) \/ Truthy(ev.actionItems)
                       \/ Truthy(ev.notes) \/ Truthy(ev.actions)
        notes_count == CountOf(GetOrElse(ev.eventNotes, ev.notes))
        actions_count == CountOf(GetOrElse(ev.actionItems, ev.actions))
        extra_height == (notes_count + actions_count) * 15
                        + (IF notes_count > 0 THEN 20 ELSE 0)
                        + (IF actions_count > 0 THEN 20 ELSE 0)
    IN  IF has_details
        THEN (IF base_height + extra_height > base_height
              THEN base_height + extra_height ELSE base_height)
        ELSE base_height

\* mutant: the slot is taken from the minute alone and the hour added to it
calculate_expected_position_MinuteFirst(time_str) ==
    (time_str.minute \div 30) * 40 + (time_str.hour - 6)

\* daily_view_audit.calculate_expected_position, for a text "HH:MM"
calculate_expected_position(time_str) ==
    LET minutes_since_6am == (time_str.hour - 6) * 60 + time_str.minute
    IN  (minutes_since_6am \div 30) * 40

\* mutant: the slot that holds the end of the appointment is counted too
get_appointment_height_EndSlot(duration_minutes) ==
    (duration_minutes \div 30 + 1) * 40

\* replit_daily_planner.get_appointment_height
get_appointment_height(duration_minutes) ==
    LET slots_needed == IF duration_minutes \div 30 > 1
                        THEN duration_minutes \div 30 ELSE 1
    IN  slots_needed * 40

\* the time of day m minutes after s
PlusMinutes(s, m) ==
    Clock((s.hour * 60 + s.minute + m) \div 60, (s.hour * 60 + s.minute + m) % 60)

StartClocks == {Clock(h, m) : h \in 0..23, m \in {0, 5, 15, 30, 45}}

\* what a key of an event may hold
KeyValues == {Absent, SomeText} \cup {ListOf(n) : n \in 0..MaxItems}

\* an event with no key for notes or action items
Plain(s, e) ==
    [startTime |-> s, endTime |-> e, eventNotes |-> Absent, notes |-> Absent,
     actionItems |-> Absent, actions |-> Absent]

\* appointments that end within their day, at every start time; ones whose
\* endTime is unreadable; one whose times are both unreadable; and, from
\* 08:00, ones with every filling of the four keys
Appointments ==
    {Plain(s, PlusMinutes(s, 15 * q)) : s \in StartClocks, q \in 0..MaxQuarters}
    \cup {Plain(s, BadClock) : s \in StartClocks \cup {BadClock}}
    \cup {[startTime |-> Clock(8, 0), endTime |-> PlusMinutes(Clock(8, 0), 15 * q),
           eventNotes |-> en, notes |-> n, actionItems |-> ai, actions |-> a] :
             q \in 0..MaxQuarters, en \in KeyValues, n \in KeyValues,
             ai \in KeyValues, a \in KeyValues}

InitLayout ==
    /\ prog = "layout"
    /\ pc = "idle"
    /\ weekly_pdf_path = MissingFile
    /\ daily_pdf_paths = <<>>
    /\ events_data = <<>>
    /\ week_start_str = EmptyStr
    /\ week_end_str = EmptyStr
    /\ InitLocals
    /\ runs = <<>>
    /\ disk = <<>>
    /\ appointment \in {ap \in Appointments :
                          _time_to_minutes(ap.endTime) < MinutesPerDay}
    /\ layout = [fn |-> "none"]

\* the rows of the weekly grid in which _process_weekly_data lists the event,
\* numbered from 0
WeeklyRows(ev) ==
    {n - 1 : n \in {k \in 1..Len(_generate_time_slots) :
                       _is_event_at_time(ev, _generate_time_slots[k])}}

\* _process_weekly_data, for the one event
ProcessWeekly ==
    /\ prog = "layout"
    /\ layout' = [fn |-> "_process_weekly_data",
                  rows |-> WeeklyRows(appointment),
                  height |-> _calculate_event_height(appointment)]
    /\ UNCHANGED <<OneRun, runs, disk, appointment>>

\* _process_daily_data, for the one event
\* the navigation data goes by day_index, Monday being 0; prevDayName and
\* nextDayName are the capitalised names of the two neighbours
ProcessDaily ==
    /\ prog = "layout"
    /\ \E day_index \in 0..(NumDays - 1) :
          LET prev_day == IF day_index > 0 THEN day_index - 1 ELSE NumDays - 1
              next_day == IF day_index < NumDays - 1 THEN day_index + 1 ELSE 0
          IN  layout' = [fn |-> "_process_daily_data",
                         topPosition |-> _calculate_daily_top_position(appointment),
                         height |-> _calculate_daily_event_height(appointment),
                         dayName |-> days[day_index + 1],
                         prevDayName |-> days[prev_day + 1],
                         nextDayName |-> days[next_day + 1]]
    /\ UNCHANGED <<OneRun, runs, disk, appointment>>

\* daily_view_audit: calculated_top = calculate_expected_position(start_time);
\* map(int, time_str.split(':')) raises ValueError on a text that is no time
AuditPosition ==
    /\ prog = "layout"
    /\ IF appointment.startTime.ok
       THEN layout' = [fn |-> "calculate_expected_position", raised |-> FALSE,
                       top |-> calculate_expected_position(appointment.startTime)]
       ELSE layout' = [fn |-> "calculate_expected_position", raised |-> TRUE]
    /\ UNCHANGED <<OneRun, runs, disk, appointment>>

\* datetime.strptime(text, "%H:%M") reads the text
strptime_ok(t) == t.ok /\ t.hour \in 0..23 /\ t.minute \in 0..59

\* replit_daily_planner: parse_appointments computes duration_minutes with
\* strptime, which raises on a text that is no time; render_appointment_html
\* calls get_appointment_height
PlannerHeight ==
    /\ prog = "layout"
    /\ IF strptime_ok(appointment.startTime) /\ strptime_ok(appointment.endTime)
       THEN layout' = [fn |-> "get_appointment_height", raised |-> FALSE,
                       height |-> get_appointment_height(
                                     _time_to_minutes(appointment.endTime)
                                     - _time_to_minutes(appointment.startTime))]
       ELSE layout' = [fn |-> "get_appointment_height", raised |-> TRUE]
    /\ UNCHANGED <<OneRun, runs, disk, appointment>>

\* replit_daily_planner.generate_time_slots: from 06:00 while <= 23:30
generate_time_slots ==
    [n \in 1..36 |-> Clock(6 + (n - 1) \div 2, 30 * ((n - 1) % 2))]

\* parse_appointments: duration_minutes is computed from the two times
parse_appointments(ev) ==
    [start_time |-> ev.startTime,
     duration_minutes |-> (ev.endTime.hour * 60 + ev.endTime.minute)
                            - (ev.startTime.hour * 60 + ev.startTime.minute)]

\* (start_time + timedelta(minutes=k)).strftime("%H:%M")
ClockAfter(s, k) ==
    Clock(((s.hour * 60 + s.minute + k) \div 60) % 24, (s.minute + k) % 60)

\* the slots the while loop of calculate_free_time adds for one appointment
OccupiedBy(apt) ==
    {ClockAfter(apt.start_time, 30 * n) :
        n \in {m \in 0..(apt.duration_minutes \div 30) : 30 * m < apt.duration_minutes}}
    \cap {generate_time_slots[n] : n \in 1..36}

calculate_free_time(appointments) ==
    LET occupied_slots == UNION {OccupiedBy(appointments[n]) : n \in 1..Len(appointments)}
    IN  SelectSeq(generate_time_slots, LAMBDA slot : slot \notin occupied_slots)

\* the planner built from the one appointment, then calculate_free_time
FreeTime ==
    /\ prog = "layout"
    /\ IF strptime_ok(appointment.startTime) /\ strptime_ok(appointment.endTime)
       THEN layout' = [fn |-> "calculate_free_time", raised |-> FALSE,
                       free_slots |-> calculate_free_time(<<parse_appointments(appointment)>>)]
       ELSE layout' = [fn |-> "calculate_free_time", raised |-> TRUE]
    /\ UNCHANGED <<OneRun, runs, disk, appointment>>

\* the appointments column is kept as the sequence of its
\* <div class="time-block"> elements: empty ones, each with the slot named in
\* its comment, and ones that hold a rendered appointment
EmptyBlock(slot) == [block |-> "empty", slot |-> slot]
AppointmentBlock(apt) == [block |-> "appointment", slot |-> apt.start_time]

\* html.rsplit('<div class="time-block"></div>', 1)[0]
BeforeLastEmpty(html) ==
    LET empties == {n \in 1..Len(html) : html[n].block = "empty"}
    IN  IF empties = {} THEN html
        ELSE SubSeq(html, 1, (CHOOSE n \in empties : \A m \in empties : m <= n) - 1)

\* "for apt in appointments" at slot i, from the n-th appointment on
RECURSIVE PlaceAppointments(_, _, _, _)
PlaceAppointments(html, slot_index, appointments, n) ==
    IF n > Len(appointments) THEN html
    ELSE LET apt == appointments[n]
             duration_slots == apt.duration_minutes \div 30
             covered == Min(duration_slots - 1, 35 - slot_index)
         IN  IF apt.start_time # generate_time_slots[slot_index + 1]
             THEN PlaceAppointments(html, slot_index, appointments, n + 1)
             ELSE PlaceAppointments(
                      BeforeLastEmpty(html) \o <<AppointmentBlock(apt)>>
                        \o (IF covered >= 1
                            THEN [j \in 1..covered |-> EmptyBlock(generate_time_slots[slot_index + j + 1])]
                            ELSE <<>>),
                      slot_index, appointments, n + 1)

\* the passes first..last of "for i, slot in enumerate(self.time_slots)", one
\* after the other: the html left by the first half of the passes is what the
\* second half starts from
RECURSIVE ColumnPasses(_, _, _, _)
ColumnPasses(html, first, last, appointments) ==
    IF first > last THEN html
    ELSE IF first = last
    THEN PlaceAppointments(html \o <<EmptyBlock(generate_time_slots[first + 1])>>,
                           first, appointments, 1)
    ELSE LET middle == (first + last) \div 2
         IN  CHOOSE out \in {ColumnPasses(half, middle + 1, last, appointments) :
                               half \in {ColumnPasses(html, first, middle, appointments)}} :
                 TRUE

generate_appointments_column_html(appointments) ==
    ColumnPasses(<<>>, 0, 35, appointments)

\* the planner built from no appointment or from the one appointment, then
\* generate_appointments_column_html
ColumnHtml ==
    /\ prog = "layout"
    /\ \/ layout' = [fn |-> "generate_appointments_column_html", raised |-> FALSE,
                     appointments |-> <<>>,
                     html |-> generate_appointments_column_html(<<>>)]
       \/ IF strptime_ok(appointment.startTime) /\ strptime_ok(appointment.endTime)
          THEN layout' = [fn |-> "generate_appointments_column_html", raised |-> FALSE,
                          appointments |-> <<parse_appointments(appointment)>>,
                          html |-> generate_appointments_column_html(
                                       <<parse_appointments(appointment)>>)]
          ELSE layout' = [fn |-> "generate_appointments_column_html", raised |-> TRUE]
    /\ UNCHANGED <<OneRun, runs, disk, appointment>>

NextLayout ==
    \/ ProcessWeekly
    \/ ProcessDaily
    \/ AuditPosition
    \/ PlannerHeight
    \/ FreeTime
    \/ ColumnHtml

SpecLayout == InitLayout /\ [][NextLayout]_vars

---------------------------------------------------------------------------
(* One slot index for an event, whichever view draws it *)

\* the event starts inside the grid, at or after 06:00 and before 23:30
StartsInGrid(ev) ==
    /\ ev.startTime.ok
    /\ _time_to_minutes(ev.startTime) >= 6 * 60
    /\ _time_to_minutes(ev.startTime) < 23 * 60 + 30

\* the least element of a non-empty set of numbers
Least(S) == CHOOSE x \in S : \A y \in S : x <= y

\* the event has a readable endTime, an hour or more after its startTime
LastsAnHour(ev) ==
    /\ ev.endTime.ok
    /\ _time_to_minutes(ev.endTime) - _time_to_minutes(ev.startTime) >= 60

\* C18: for an event that starts inside the grid (and lasts an hour or more,
\* so that the weekly view lists it in some row), the first row of the weekly
\* view that lists the event is the slot the daily view puts it in, which is
\* the daily top position over 30 and also the audit's expected position
\* over 40
C18_SameSlotBothViews ==
    (layout.fn = "_process_weekly_data" /\ StartsInGrid(appointment)
         /\ LastsAnHour(appointment))
        => /\ layout.rows # {}
           /\ Least(layout.rows) = _calculate_daily_top_position(appointment) \div 30
           /\ Least(layout.rows) = calculate_expected_position(appointment.startTime) \div 40

---------------------------------------------------------------------------
(* Clamping of the slot index, and the height of a block *)

\* minutes from 06:00 to the start of the event
MinutesSinceSix(ev) == _time_to_minutes(ev.startTime) - 6 * 60

\* n clamped to lo..hi
Clamp(n, lo, hi) == IF n < lo THEN lo ELSE IF n > hi THEN hi ELSE n

\* C19: the daily view's top position of an event with a readable startTime
\* is inside the grid of 36 slots of 30, never negative, and its slot is
\* floor(minutes since 06:00 / 30) clamped to 0..35
C19_SlotIndexClamped ==
    (layout.fn = "_process_daily_data" /\ appointment.startTime.ok)
        => /\ layout.topPosition >= 0
           /\ layout.topPosition < 36 * 30
           /\ layout.topPosition \div 30
                = Clamp(MinutesSinceSix(appointment) \div 30, 0, 35)

\* endTime minus startTime in minutes, both times readable
DurationMinutes(ev) == _time_to_minutes(ev.endTime) - _time_to_minutes(ev.startTime)

\* max(1, duration // 30) slots of px each
WholeSlots(duration, px) ==
    (IF duration \div 30 > 1 THEN duration \div 30 ELSE 1) * px

\* C20: for an event with readable times and neither notes nor action items,
\* each of the three height functions returns max(1, duration // 30) slots:
\* of 20 in the weekly view, of 30 in the daily view, of 40 in the planner
C20_HeightWholeSlots ==
    (appointment.startTime.ok /\ appointment.endTime.ok
         /\ appointment = Plain(appointment.startTime, appointment.endTime))
        => /\ layout.fn = "_process_weekly_data"
                => layout.height = WholeSlots(DurationMinutes(appointment), 20)
           /\ layout.fn = "_process_daily_data"
                => layout.height = WholeSlots(DurationMinutes(appointment), 30)
           /\ layout.fn = "get_appointment_height"
                => /\ ~layout.raised
                   /\ layout.height = WholeSlots(DurationMinutes(appointment), 40)

---------------------------------------------------------------------------
(* The content bonus of the daily block height *)

\* "a or b" of _process_daily_data: the value that carries the lines
Carried(first, second) == IF Truthy(first) THEN first ELSE second

\* the height _calculate_daily_event_height derives from the times alone
TimeBasedHeight(ev) == IntOfTimesThirty(DurationMinutes(ev))

\* 15 for every line of notes and of action items, 20 for each of the two
\* sections that has a line
ContentBonus(ev) ==
    LET note_lines == CountOf(Carried(ev.eventNotes, ev.notes))
        action_lines == CountOf(Carried(ev.actionItems, ev.actions))
    IN  15 * (note_lines + action_lines)
        + (IF note_lines > 0 THEN 20 ELSE 0)
        + (IF action_lines > 0 THEN 20 ELSE 0)

\* C21: for an event with readable times that has notes or action items
\* under any of the four keys, the daily height is the time-based height plus
\* the content bonus, counting the lines of whichever key carries them, and
\* it is never below the time-based height
C21_ContentBonus ==
    (layout.fn = "_process_daily_data"
         /\ appointment.startTime.ok /\ appointment.endTime.ok
         /\ ContentBonus(appointment) > 0)
        => /\ layout.height = TimeBasedHeight(appointment) + ContentBonus(appointment)
           /\ layout.height >= TimeBasedHeight(appointment)

---------------------------------------------------------------------------
(* An hour is two slots *)

\* C22: an event of exactly 60 minutes with readable times and neither notes
\* nor action items is two slots high in every height function: 40 in the
\* weekly view, 60 in the daily view, 80 in the planner
C22_HourIsTwoSlots ==
    (appointment.startTime.ok /\ appointment.endTime.ok
         /\ appointment = Plain(appointment.startTime, appointment.endTime)
         /\ DurationMinutes(appointment) = 60)
        => /\ layout.fn = "_process_weekly_data" => layout.height = 2 * 20
           /\ layout.fn = "_process_daily_data" => layout.height = 2 * 30
           /\ layout.fn = "get_appointment_height"
                => ~layout.raised /\ layout.height = 2 * 40

\* the planner has computed the height of a plain event from 09:15 to 10:15
C22_Witness ==
    /\ layout.fn = "get_appointment_height"
    /\ appointment = Plain(Clock(9, 15), Clock(10, 15))
    /\ layout.height = 80

---------------------------------------------------------------------------
(* Positions grow with the start time *)

\* the plain one-hour event that starts at s
HourFrom(s) == Plain(s, PlusMinutes(s, 60))

\* C23: the position computed for an event is at least the position of every
\* event of the day that starts no later, and so is its slot: in the daily
\* view (_calculate_daily_top_position, slots of 30) and in the audit
\* (calculate_expected_position, slots of 40)
C23_PositionMonotonic ==
    appointment.startTime.ok =>
        \A s \in StartClocks :
            _time_to_minutes(s) <= _time_to_minutes(appointment.startTime)
                => /\ layout.fn = "_process_daily_data"
                        => /\ _calculate_daily_top_position(HourFrom(s))
                                <= layout.topPosition
                           /\ _calculate_daily_top_position(HourFrom(s)) \div 30
                                <= layout.topPosition \div 30
                   /\ layout.fn = "calculate_expected_position"
                        => /\ ~layout.raised
                           /\ calculate_expected_position(s) <= layout.top
                           /\ calculate_expected_position(s) \div 40
                                <= layout.top \div 40

\* the audit has placed an event that starts at 10:05, later than others
C23_Witness ==
    /\ layout.fn = "calculate_expected_position"
    /\ appointment.startTime = Clock(10, 5)
    /\ layout.top = 8 * 40

---------------------------------------------------------------------------
(* One row for an event in the weekly grid *)

\* C24: an event that starts inside the grid and lasts an hour or more is
\* listed by _process_weekly_data in exactly one row, the row of the slot it
\* starts in
C24_OneRowPerEvent ==
    (layout.fn = "_process_weekly_data" /\ StartsInGrid(appointment)
         /\ LastsAnHour(appointment))
        => layout.rows = {MinutesSinceSix(appointment) \div 30}

---------------------------------------------------------------------------
(* Link regions and drawn navigation regions *)

\* the page a drawn navigation region of page p leads to: a day header of the
\* weekly page to that day's page; on a daily page the first button to the
\* weekly page, the second to the previous day, the third to the next day
RegionTarget(r, p) ==
    IF r.what = "header" THEN r.col + 1
    ELSE IF r.row = 0 THEN 0
    ELSE IF r.row = 1 THEN p - 1
    ELSE p + 1

\* the navigation regions drawn on page p of d, each with its target
DrawnRegions(d, p) ==
    {<<d[p + 1].drawn[n].rect, RegionTarget(d[p + 1].drawn[n], p)>> :
        n \in {m \in 1..Len(d[p + 1].drawn) :
                  d[p + 1].drawn[m].what \in {"header", "button"}}}

\* the link regions of page p of d, each with its target
LinkRegions(d, p) ==
    {<<d[p + 1].links[n].from, d[p + 1].links[n].page>> : n \in 1..Len(d[p + 1].links)}

\* C25: once add_bidirectional_hyperlinks has wired the document, on every
\* page the link rectangles with their targets are exactly the navigation
\* rectangles the renderer drew there with theirs: the seven day headers on
\* the weekly page, and on a daily page the weekly-overview button and the
\* previous and next buttons where they were drawn, with one link per region
C25_LinksOnDrawnRegions ==
    (prog = "linked" /\ Wired)
        => \A p \in 0..(Len(doc) - 1) :
              /\ LinkRegions(doc, p) = DrawnRegions(doc, p)
              /\ Len(doc[p + 1].links) = Cardinality(DrawnRegions(doc, p))

\* the wired document: Monday's page has two buttons and two links, Tuesday's
\* three of each
C25_Witness ==
    /\ prog = "linked" /\ pc = "save"
    /\ Len(doc) = 8
    /\ Cardinality(DrawnRegions(doc, 1)) = 2 /\ Len(doc[2].links) = 2
    /\ Cardinality(DrawnRegions(doc, 2)) = 3 /\ Len(doc[3].links) = 3

---------------------------------------------------------------------------
(* Previous and next day of a daily page *)

\* the position of a day name in the week, Monday being 0
DayIndex(name) == CHOOSE k \in 0..(NumDays - 1) : days[k + 1] = name

\* C26: in the navigation data of _process_daily_data the previous day of
\* day i is day i-1 and the next day is day i+1; Monday's page names no
\* previous day and Sunday's page names no next day
C26_DailyNavigation ==
    layout.fn = "_process_daily_data" =>
        LET k == DayIndex(layout.dayName)
        IN  /\ layout.prevDayName = (IF k > 0 THEN days[k] ELSE "")
            /\ layout.nextDayName = (IF k < NumDays - 1 THEN days[k + 2] ELSE "")

---------------------------------------------------------------------------
(* api/pymypdf_bidirectional_export.py *)

\* the loop of main over events, with the safe_parse_datetime of that file
\* (the first two attempts of simple_fix.safe_parse_datetime); the chained
\* comparison is not inside a try of its own, so the TypeError of comparing
\* an aware with a naive datetime ends the loop
RECURSIVE ApiWeekEvents(_, _, _)
ApiWeekEvents(evs, ws, we) ==
    IF evs = <<>> THEN [raised |-> FALSE, week_events |-> <<>>]
    ELSE LET event_date == safe_parse_datetime(Head(evs).startTime)
             rest == ApiWeekEvents(Tail(evs), ws, we)
         IN  IF event_date = None THEN rest
             ELSE IF ~Comparable(ws, event_date)
                  THEN [raised |-> TRUE, week_events |-> <<>>]
             ELSE IF ~LessEq(ws, event_date) THEN rest
             ELSE IF ~Comparable(event_date, we)
                  THEN [raised |-> TRUE, week_events |-> <<>>]
             ELSE IF rest.raised \/ ~LessEq(event_date, we) THEN rest
             ELSE [rest EXCEPT !.week_events = <<Head(evs)>> \o @]

\* main: any exception is caught at the bottom and ends with sys.exit(1);
\* week_start.date() raises when a bound did not parse; the document is one
\* page of the default size that states the number of filtered events
ApiMain ==
    /\ prog = "api" /\ pc = "parse"
    /\ week_start' = safe_parse_datetime(week_start_str)
    /\ week_end' = safe_parse_datetime(week_end_str)
    /\ IF week_start' = None \/ week_end' = None
       THEN /\ result' = Raised
            /\ UNCHANGED <<week_events, doc, saved_pdf>>
       ELSE LET r == ApiWeekEvents(events_data, week_start', week_end')
            IN  IF r.raised
                THEN /\ result' = Raised
                     /\ UNCHANGED <<week_events, doc, saved_pdf>>
                ELSE /\ week_events' = r.week_events
                     /\ doc' = <<[Page(-1, 0, 595 * Scale, 842 * Scale) EXCEPT
                                     !.day_name = "WEEKLY PLANNER",
                                     !.date = week_start'.day,
                                     !.count = Len(r.week_events)]>>
                     /\ \/ /\ saved_pdf' = PdfOf(doc')
                           /\ result' = RetFile("pdf", week_start'.day)
                        \/ /\ saved_pdf' \in {saved_pdf, PartialFile}
                           /\ result' = Raised
    /\ pc' = "done"
    /\ UNCHANGED <<Aside, Inputs, parsing_errors, i, saved_txt>>

---------------------------------------------------------------------------
(* One week of appointments through the three export scripts *)

\* startTime values of a week that starts on day 0: naive timestamps on the
\* first, a middle and the last day at 00:00, 08:00 and 08:15, a Z timestamp
\* on the last day, and the day after the week
WeekStartTimes ==
    {Stamp("naive", d, m) : d \in {0, 6}, m \in {0, 8 * 60, 8 * 60 + 15}}
    \cup {Stamp("naive", 3, 8 * 60 + 15), Stamp("z", 6, 8 * 60), Stamp("naive", 7, 0)}

WeekInputEvents == {Event(s, PlusHour(s)) : s \in WeekStartTimes}

\* a day with eleven appointments, all at 08:00
BusyDay == [n \in 1..11 |-> Event(Stamp("naive", 0, 8 * 60), Stamp("naive", 0, 9 * 60))]

\* the week as date-only bounds and as naive timestamps to the last minute
InitWeek ==
    /\ prog \in {"linked", "simple", "api"}
    /\ pc = "parse"
    /\ weekly_pdf_path = MissingFile
    /\ daily_pdf_paths = <<>>
    /\ events_data \in UNION {[1..n -> WeekInputEvents] : n \in 0..MaxWeekEvents}
                         \cup {BusyDay}
    /\ \/ week_start_str = Stamp("date", 0, 0) /\ week_end_str = Stamp("date", 6, 0)
       \/ /\ week_start_str = Stamp("naive", 0, 0)
          /\ week_end_str = Stamp("naive", 6, MinutesPerDay - 1)
    /\ InitLocals
    /\ InitAside

NextWeek == NextLinked \/ NextSimple \/ ApiMain

SpecWeek == InitWeek /\ [][NextWeek]_vars

\* the week filter of the running script has run (in the api script an
\* exception in the loop leaves week_events empty)
WeekFiltered ==
    /\ week_start # None /\ week_end # None
    /\ IF prog = "api" THEN pc = "done" ELSE pc \notin {"parse", "filter"}

\* the event starts on one of the seven days that begin at weekStart
OnWeekDay(e) ==
    /\ fromisoformat(e.startTime) # None
    /\ fromisoformat(e.startTime).day \in week_start.day..(week_start.day + 6)

\* C27: with date-only bounds weekStart = D and weekEnd = D+6, every event
\* that starts on one of the seven days, at any time of the day, is among
\* the filtered events of the week
C27_DateOnlyWeekKeepsAllDays ==
    (WeekFiltered /\ week_start_str.form = "date" /\ week_end_str.form = "date") =>
        \A e \in Range(events_data) : OnWeekDay(e) => e \in Range(week_events)

---------------------------------------------------------------------------
(* Every event of the week on the pages *)

\* the filtered events that start on day k of the week
WeekDayEvents(k) ==
    SelectSeq(week_events, LAMBDA e :
        /\ fromisoformat(e.startTime) # None
        /\ fromisoformat(e.startTime).day = week_start.day + k)

\* the event blocks and event lines drawn on page p for day k
EventBlocks(p, k) ==
    {n \in 1..Len(p.drawn) : p.drawn[n].what \in {"event", "line"} /\ p.drawn[n].col = k}

\* C28: no event of the week is lost in rendering: on each daily page the
\* number of events drawn equals the appointment count of its header and the
\* number of filtered events of that day, and each of them is drawn there;
\* the weekly overview page draws each of them in the column of its day
C28_NoEventLostInRendering ==
    (prog \in {"linked", "simple"} /\ Wired) =>
        \A k \in 0..(NumDays - 1) :
            LET daily == doc[k + 2]
            IN  /\ daily.count = Len(WeekDayEvents(k))
                /\ Cardinality(EventBlocks(daily, k)) = daily.count
                /\ \A e \in Range(WeekDayEvents(k)) :
                      \E n \in EventBlocks(daily, k) : daily.drawn[n].event = e
                /\ prog = "linked" =>
                      /\ Cardinality(EventBlocks(doc[1], k)) = Len(WeekDayEvents(k))
                      /\ \A e \in Range(WeekDayEvents(k)) :
                            \E n \in EventBlocks(doc[1], k) : doc[1].drawn[n].event = e

---------------------------------------------------------------------------
(* Free time and the appointments column of the daily planner *)

\* minutes since midnight of a time of day
MinuteOfDay(t) == t.hour * 60 + t.minute

\* the appointment overlaps the 30 minutes that start at slot
OverlapsSlot(ev, slot) ==
    /\ MinuteOfDay(ev.startTime) < MinuteOfDay(slot) + 30
    /\ MinuteOfDay(slot) < MinuteOfDay(ev.endTime)

\* C29: calculate_free_time reports a slot as free only if no appointment
\* overlaps it, whatever minute the appointment starts at, and every one of
\* the 36 slots is either reported free or overlapped by an appointment
C29_FreeSlotsAreFree ==
    (layout.fn = "calculate_free_time" /\ ~layout.raised) =>
        \A n \in 1..36 :
            LET slot == generate_time_slots[n]
            IN  (slot \in Range(layout.free_slots)) <=> ~OverlapsSlot(appointment, slot)

\* C30: generate_appointments_column_html emits exactly one time-block per
\* slot, 36 in all and in slot order, for every appointment list; an
\* appointment that spans several slots adds no block
C30_OneBlockPerSlot ==
    (layout.fn = "generate_appointments_column_html" /\ ~layout.raised) =>
        /\ Len(layout.html) = 36
        /\ \A n \in 1..36 : layout.html[n].slot = generate_time_slots[n]

====
